---- MODULE Spec2Model ----
(***************************************************************************)
(* Model of the recommendation engine of the job board                     *)
(* (job_board/recommendations.py) together with its two callers: the       *)
(* on-demand list view (views.py, JobRecommendationViewSet.get_queryset)   *)
(* and the background task (tasks.py, generate_user_recommendations).      *)
(*                                                                         *)
(* Scores are kept in hundredths (0..100): calculate_score rounds to two   *)
(* decimals, and every later comparison in the code is on that rounded     *)
(* value.  Strings that the code searches for substrings are sequences of  *)
(* one-character strings; strings that are only compared are TLA+ strings. *)
(*                                                                         *)
(* The table of JobRecommendation rows is a bag of rows without their      *)
(* primary key: the key is a random UUID that no code reads, and the table *)
(* has no uniqueness constraint, so equal rows may be stored twice.        *)
(***************************************************************************)
EXTENDS Integers, Sequences, FiniteSets, Bags, TLC

\* ------------------------------------------------------------------ bounds

\* generate_recommendations calls that may be started in one behaviour
MaxCalls == 2

\* entries of a preference list of the profiles given to calculate_score
MaxPrefs == 2

\* declared skills of the profiles given to calculate_score
MaxSkills == 3

\* ---------------------------------------------------------- the catalogue

Users == {"u1", "u2"}
Jobs == {"j1", "j2", "j3", "j4", "j5"}
\* the processes: the web process serves the requests (and stands for any
\* direct caller of the engine), the Celery worker runs the queued tasks
Procs == {"web", "worker"}

\* the applications submitted in a behaviour: <<applicant, job>>
ApplyChoices == { <<"u1", "j2">> }

\* the values of Application.status that update_status sets in a behaviour
ApplicationStatusChoices == {"rejected", "withdrawn"}

\* Job.Meta.ordering = ['-created_at']: the order in which a Job queryset
\* yields its rows (j1 is the newest job).
JobOrder == <<"j1", "j2", "j3", "j4", "j5">>

\* Job.status
JobStatus(j) ==
    CASE j = "j3" -> "draft"
      [] j = "j4" -> "closed"
      [] j = "j5" -> "archived"
      [] OTHER -> "published"

NoProfile == [none |-> TRUE]

\* JobSkill rows: the names of the skills of each job
JobSkills(j) ==
    CASE j = "j1" -> {"Python"}
      [] j = "j2" -> {"Python"}
      [] j = "j3" -> {"Python", "Go"}
      [] OTHER -> {}

\* Job.location, as a sequence of characters
JobLocation(j) ==
    CASE j = "j1" -> <<"R", "e", "m">>
      [] j = "j2" -> <<"L", "a", "g">>
      [] OTHER -> <<"L", "a">>

JobIsRemote(j) == j = "j1"

JobType(j) ==
    CASE j = "j1" -> "full_time"
      [] j = "j2" -> "contract"
      [] OTHER -> "full_time"

\* the preference fields of a FreelancerProfile row the model chooses among
PrefChoices ==
    { [preferred_locations |-> <<>>, preferred_project_types |-> <<>>,
       is_open_to_remote |-> TRUE],
      [preferred_locations |-> <<>>, preferred_project_types |-> <<"contract">>,
       is_open_to_remote |-> TRUE] }

\* the UserSkill rows (skill names) of a profile the model chooses among
SkillChoices == { {}, {"Python"} }

\* the limit arguments of direct generate_recommendations calls
LimitChoices == {-1, 0, 1}

DefaultLimit == 10

AlgorithmChoices == {"content_based", "collaborative", "hybrid", "trending"}

\* ---------------------------------------------------------- str methods

\* str.lower() on one character
LowerChar(c) ==
    CASE c = "R" -> "r"
      [] c = "L" -> "l"
      [] c = "A" -> "a"
      [] OTHER -> c

\* str.lower()
Lower(s) == [i \in 1..Len(s) |-> LowerChar(s[i])]

\* the `in` operator of str: a is a substring of b
IsSubstring(a, b) ==
    \E i \in 0..(Len(b) - Len(a)) :
        \A k \in 1..Len(a) : a[k] = b[i + k]

\* ------------------------------------------------------------ the scores

\* A sub-score is a fraction [num, den]: 1.0, 0.5, 0.0 or matching/required.
Frac(n, d) == [num |-> n, den |-> d]

\* the Job row of the catalogue with its JobSkill names: what the scoring
\* methods read of a job
JobRow(j) ==
    [skills |-> JobSkills(j), location |-> JobLocation(j),
     is_remote |-> JobIsRemote(j), job_type |-> JobType(j)]

\* a faulty skills score: the declared skills are counted, matching or not
SkillsScoreDeclaredCount(user_skills, job) ==
    IF job.skills = {} THEN Frac(1, 1)
    ELSE IF user_skills = {} THEN Frac(0, 1)
    ELSE Frac(Cardinality(user_skills), Cardinality(job.skills))

\* a faulty skills score: the test of the user's skills comes first
SkillsScoreUserFirst(user_skills, job) ==
    IF user_skills = {} THEN Frac(0, 1)
    ELSE IF job.skills = {} THEN Frac(1, 1)
    ELSE Frac(Cardinality(user_skills \cap job.skills), Cardinality(job.skills))

\* a faulty skills score: the share of the declared skills that are required
SkillsScorePrecision(user_skills, job) ==
    IF job.skills = {} THEN Frac(1, 1)
    ELSE IF user_skills = {} THEN Frac(0, 1)
    ELSE Frac(Cardinality(user_skills \cap job.skills), Cardinality(user_skills))

calculate_skills_score(user_skills, job) ==
    LET job_skills == job.skills
    IN  IF job_skills = {} THEN Frac(1, 1)
        ELSE IF user_skills = {} THEN Frac(0, 1)
        ELSE Frac(Cardinality(user_skills \cap job_skills), Cardinality(job_skills))

\* an entry of a JSON list that is not a string (a number, null): it has no
\* method lower
NonString == <<"<number>">>

\* loc.lower() raises AttributeError: the loop meets an entry that is not a
\* string before an entry that matches
LocationScoreRaises(prefs, job) ==
    LET locs == prefs.preferred_locations
        job_loc == Lower(job.location)
    IN  \E i \in 1..Len(locs) :
           /\ locs[i] = NonString
           /\ \A k \in 1..(i - 1) :
                 /\ locs[k] # NonString
                 /\ ~IsSubstring(Lower(locs[k]), job_loc)
                 /\ ~IsSubstring(job_loc, Lower(locs[k]))

\* a faulty location score: the strings are compared as they are written
LocationScoreCaseSensitive(prefs, job) ==
    LET locs == prefs.preferred_locations
    IN  IF Len(locs) = 0 THEN Frac(1, 2)
        ELSE IF \E i \in 1..Len(locs) :
                    \/ IsSubstring(locs[i], job.location)
                    \/ IsSubstring(job.location, locs[i])
             THEN Frac(1, 1)
        ELSE IF job.is_remote /\ prefs.is_open_to_remote THEN Frac(1, 1)
        ELSE Frac(0, 1)

\* a faulty location score: the remote test comes before the test of the list
LocationScoreRemoteFirst(prefs, job) ==
    LET locs == prefs.preferred_locations
        job_loc == Lower(job.location)
    IN  IF job.is_remote /\ prefs.is_open_to_remote THEN Frac(1, 1)
        ELSE IF Len(locs) = 0 THEN Frac(1, 2)
        ELSE IF \E i \in 1..Len(locs) :
                    \/ IsSubstring(Lower(locs[i]), job_loc)
                    \/ IsSubstring(job_loc, Lower(locs[i]))
             THEN Frac(1, 1)
        ELSE Frac(0, 1)

calculate_location_score(prefs, job) ==
    LET locs == prefs.preferred_locations
        job_loc == Lower(job.location)
    IN  IF Len(locs) = 0 THEN Frac(1, 2)
        ELSE IF \E i \in 1..Len(locs) :
                    \/ IsSubstring(Lower(locs[i]), job_loc)
                    \/ IsSubstring(job_loc, Lower(locs[i]))
             THEN Frac(1, 1)
        ELSE IF job.is_remote /\ prefs.is_open_to_remote THEN Frac(1, 1)
        ELSE Frac(0, 1)

\* a faulty type score: no preference counts as a mismatch
TypeScoreEmptyZero(prefs, job) ==
    LET types == prefs.preferred_project_types
    IN  IF \E i \in 1..Len(types) : types[i] = job.job_type THEN Frac(1, 1)
        ELSE Frac(0, 1)

calculate_type_score(prefs, job) ==
    LET types == prefs.preferred_project_types
    IN  IF Len(types) = 0 THEN Frac(1, 2)
        ELSE IF \E i \in 1..Len(types) : types[i] = job.job_type THEN Frac(1, 1)
        ELSE Frac(0, 1)

WeightSkills == 60
WeightLocation == 20
WeightType == 20

\* a faulty rounding: the digits after the second decimal are cut off
Round2Floor(n, d) == n \div d

\* round(x, 2) of the non-negative x = n/d hundredths, as a whole number of
\* hundredths.  A tie goes to the even neighbour; with fewer than eight
\* required skills per job no sum of the three terms is a tie.
Round2(n, d) ==
    LET q == n \div d
        r == n % d
    IN  IF 2 * r > d THEN q + 1
        ELSE IF 2 * r = d THEN q + (q % 2)
        ELSE q

calculate_score(prefs, user_skills, job) ==
    LET s == calculate_skills_score(user_skills, job)
        l == calculate_location_score(prefs, job)
        t == calculate_type_score(prefs, job)
        d == s.den * l.den * t.den
        n == WeightSkills * s.num * l.den * t.den
             + WeightLocation * l.num * s.den * t.den
             + WeightType * t.num * s.den * l.den
    IN  Round2(n, d)

\* the `score > 0.1` test of the generation loop, in hundredths
Threshold == 10

\* a faulty threshold test: `>=` for `>`
ClearsThresholdInclusive(score) == score >= Threshold

ClearsThreshold(score) == score > Threshold

\* ------------------------------------------------------- list operations

Range(seq) == {seq[i] : i \in 1..Len(seq)}

\* a faulty insert: x goes before the elements of its own score
RECURSIVE InsertDescBeforeEqual(_, _)
InsertDescBeforeEqual(x, seq) ==
    IF seq = <<>> THEN <<x>>
    ELSE IF Head(seq).score > x.score
         THEN <<Head(seq)>> \o InsertDescBeforeEqual(x, Tail(seq))
    ELSE <<x>> \o seq

\* list.insert of x behind every element whose score is at least x.score
RECURSIVE InsertDesc(_, _)
InsertDesc(x, seq) ==
    IF seq = <<>> THEN <<x>>
    ELSE IF Head(seq).score >= x.score THEN <<Head(seq)>> \o InsertDesc(x, Tail(seq))
    ELSE <<x>> \o seq

\* a faulty ranking: the sort is dropped
SortDescNone(seq) == seq

\* list.sort(key=lambda x: x.score, reverse=True): stable, so records of
\* equal score keep the order they had in seq
RECURSIVE SortDesc(_)
SortDesc(seq) ==
    IF seq = <<>> THEN <<>>
    ELSE InsertDesc(seq[Len(seq)], SortDesc(SubSeq(seq, 1, Len(seq) - 1)))

\* a faulty slice: one record too many
SliceOneMore(seq, limit) == SubSeq(seq, 1, IF limit + 1 >= Len(seq) THEN Len(seq) ELSE limit + 1)

\* the slice seq[:limit] of Python: a negative limit counts from the end
Slice(seq, limit) ==
    LET n == Len(seq)
        k == IF limit >= n THEN n
             ELSE IF limit >= 0 THEN limit
             ELSE IF n + limit > 0 THEN n + limit
             ELSE 0
    IN  SubSeq(seq, 1, k)

\* ------------------------------------------------------------- the state

VARIABLES
    profile,        \* FreelancerProfile row of each user (NoProfile: none)
    skills,         \* UserSkill rows of each user's profile: skill names
    applications,   \* Application rows: [applicant, job, status]
    store,          \* JobRecommendation rows: a bag
    queue,          \* Celery queue of generate_user_recommendations: the
                    \* user id of each message, and beside it the profile
                    \* saved by the update that sent it (the task reads
                    \* the user id only)
    proc,           \* each worker: where it is in its request or task
    gen,            \* generate_recommendations calls started so far
    call            \* a calculate_score call on its own: arguments and results

vars == <<profile, skills, applications, store, queue, proc, gen, call>>

\* a worker that runs nothing
Idle ==
    [pc |-> "idle", kind |-> "none", user |-> "none", limit |-> 0,
     prefs |-> NoProfile, todo |-> <<>>, seen |-> <<>>, recs |-> <<>>,
     top |-> <<>>, deleted |-> EmptyBag, response |-> EmptyBag, result |-> "none",
     error |-> "none"]

\* a faulty constructor: the row is created as viewed
JobRecommendationViewed(user, job, score, alg) ==
    [user |-> user, job |-> job, score |-> score,
     algorithm_type |-> alg,
     is_viewed |-> TRUE, is_clicked |-> FALSE, is_applied |-> FALSE]

\* JobRecommendation(user=..., job=..., score=..., algorithm_type=...): the
\* three interaction flags take their default
JobRecommendation(user, job, score, alg) ==
    [user |-> user, job |-> job, score |-> score,
     algorithm_type |-> alg,
     is_viewed |-> FALSE, is_clicked |-> FALSE, is_applied |-> FALSE]

\* JobRecommendation.objects.filter(user=user, algorithm_type='content_based')
\* the rows of bag s that are in the set keep
Restrict(s, keep) == [r \in BagToSet(s) \cap keep |-> s[r]]

ContentBased(s, u) ==
    Restrict(s, {r \in BagToSet(s) : r.user = u /\ r.algorithm_type = "content_based"})

\* JobRecommendation.objects.filter(user=user)
OfUser(s, u) == Restrict(s, {r \in BagToSet(s) : r.user = u})

\* the rows a generation for u must leave alone
Others(s, u) ==
    Restrict(s, {r \in BagToSet(s) : ~(r.user = u /\ r.algorithm_type = "content_based")})

\* no calculate_score call on its own
NoCall == [phase |-> "none"]

\* The rows the table holds at the start: none, or rows left by earlier
\* runs of this and of the other algorithms; two of them have interaction
\* flags set since (no code of the application sets them, the admin site
\* edits them).
SeedChoices ==
    { EmptyBag,
      SetToBag({ [JobRecommendation("u1", "j1", 50, "content_based")
                     EXCEPT !.is_viewed = TRUE, !.is_clicked = TRUE],
                 [JobRecommendation("u1", "j2", 40, "hybrid")
                     EXCEPT !.is_viewed = TRUE, !.is_applied = TRUE],
                 JobRecommendation("u2", "j1", 50, "content_based"),
                 JobRecommendation("u2", "j2", 30, "trending") }) }

Init ==
    /\ profile \in {f \in [Users -> PrefChoices \cup {NoProfile}] :
                        f["u1"] # NoProfile /\ f["u2"] = NoProfile}
    /\ skills \in {f \in [Users -> SkillChoices] : f["u2"] = {}}
    /\ applications = {}
    /\ store \in SeedChoices
    /\ queue = <<>>
    /\ proc = [p \in Procs |-> Idle]
    /\ gen = 0
    /\ call = NoCall

\* ------------------------------------------------ generate_recommendations

\* a faulty profile lookup: a missing profile is replaced by a default one
\* instead of ending the call
LoadProfileOrDefault(profiles, u) ==
    IF profiles[u] = NoProfile
    THEN [preferred_locations |-> <<>>, preferred_project_types |-> <<>>,
          is_open_to_remote |-> TRUE]
    ELSE profiles[u]

\* try: profile = user.freelancer_profile / except DoesNotExist
LoadProfile(profiles, u) == profiles[u]

\* Job.objects.filter(status='published').exclude(id__in=applied_job_ids),
\* in the order the queryset yields its rows
\* user.applications.values_list('job_id', flat=True)
AppliedJobIds(apps, u) == {a.job : a \in {x \in apps : x.applicant = u}}

\* a faulty exclusion: only the jobs of pending applications are excluded
CandidateJobsPendingOnly(apps, u) ==
    SelectSeq(JobOrder, LAMBDA j :
        /\ JobStatus(j) = "published"
        /\ j \notin AppliedJobIds({a \in apps : a.status = "pending"}, u))

CandidateJobs(apps, u) ==
    SelectSeq(JobOrder, LAMBDA j :
        JobStatus(j) = "published" /\ j \notin AppliedJobIds(apps, u))

\* Lines 69-78: the profile is loaded, and the job query is run when the
\* loop starts to iterate it.  The two reads are of different tables and
\* nothing is written between them, so they are one step here.  Without a
\* profile the call returns [] at once.
GenStart(p, kind, u) ==
    /\ gen < MaxCalls
    /\ gen' = gen + 1
    /\ LET prof == LoadProfile(profile, u)
       IN  proc' = [proc EXCEPT ![p] =
                IF prof = NoProfile
                THEN [Idle EXCEPT !.pc = "returned", !.kind = kind, !.user = u]
                ELSE [Idle EXCEPT !.pc = "scoring", !.kind = kind, !.user = u,
                                  !.prefs = prof,
                                  !.todo = CandidateJobs(applications, u)]]

\* Lines 78-89, one iteration: calculate_score reads the UserSkill rows anew
\* for every job (profile.skills.values_list), the preferences come from the
\* profile object loaded at the start.
\* An exception of calculate_score leaves the loop and the call: the loop
\* has no handler.
Iteration(c, user_skills) ==
    LET job == Head(c.todo)
        score == calculate_score(c.prefs, user_skills, JobRow(job))
        rec == JobRecommendation(c.user, job, score, "content_based")
    IN  IF LocationScoreRaises(c.prefs, JobRow(job))
        THEN [c EXCEPT !.pc = "raised", !.error = "scoring"]
        ELSE [c EXCEPT !.todo = Tail(c.todo),
                       !.seen = Append(c.seen, [job |-> job, score |-> score]),
                       !.recs = IF ClearsThreshold(score)
                                THEN Append(c.recs, rec) ELSE c.recs]

\* a faulty loop: the old rows are deleted while the jobs are scored
ScoreNextDeleting(p) ==
    /\ proc[p].pc = "scoring"
    /\ proc[p].todo # <<>>
    /\ proc' = [proc EXCEPT ![p] = Iteration(proc[p], skills[proc[p].user])]
    /\ store' = Restrict(store, {r \in BagToSet(store) :
                     ~(r.user = proc[p].user /\ r.algorithm_type = "content_based")})
    /\ UNCHANGED <<call, profile, skills, applications, queue, gen>>

ScoreNext(p) ==
    /\ proc[p].pc = "scoring"
    /\ proc[p].todo # <<>>
    /\ proc' = [proc EXCEPT ![p] = Iteration(proc[p], skills[proc[p].user])]
    /\ UNCHANGED <<call, profile, skills, applications, store, queue, gen>>

\* a faulty delete: the rows with interaction history are kept
DeleteUntouchedOnly(s, u) ==
    Restrict(s, {r \in BagToSet(s) :
        \/ ~(r.user = u /\ r.algorithm_type = "content_based")
        \/ r.is_viewed \/ r.is_clicked \/ r.is_applied})

\* a faulty delete: the row of the newest job is kept
DeleteButNewest(s, u) ==
    Restrict(s, {r \in BagToSet(s) :
        \/ ~(r.user = u /\ r.algorithm_type = "content_based")
        \/ r.job = JobOrder[1]})

\* a faulty delete: no row is deleted
DeleteNothing(s, u) == s

\* a faulty delete: the algorithm filter is missing
DeleteAllOfUser(s, u) == Restrict(s, {r \in BagToSet(s) : r.user # u})

\* the rows left by .filter(user=user, algorithm_type='content_based').delete()
DeleteOld(s, u) ==
    Restrict(s, {r \in BagToSet(s) : ~(r.user = u /\ r.algorithm_type = "content_based")})

\* Lines 91-98: sort, slice, and delete the old content-based rows.  The
\* sort and the slice touch only the call's own list.  The limit argument
\* is read here for the first time, so the model draws it here.
DeleteStep(p, limit) ==
    /\ proc[p].pc = "scoring"
    /\ proc[p].todo = <<>>
    /\ proc[p].kind # "direct" => limit = DefaultLimit
    /\ LET c == proc[p]
       IN  /\ store' = DeleteOld(store, c.user)
           /\ proc' = [proc EXCEPT ![p] =
                    [c EXCEPT !.pc = "deleted", !.limit = limit,
                              !.top = Slice(SortDesc(c.recs), limit),
                              !.deleted = store (-) DeleteOld(store, c.user)]]
    /\ UNCHANGED <<call, profile, skills, applications, queue, gen>>

\* the rows of a list of unsaved objects
Rows(seq) == BagOfAll(LAMBDA i : seq[i], SetToBag(1..Len(seq)))

\* Lines 101-103: bulk_create(top_recs); return top_recs
BulkCreate(p) ==
    /\ proc[p].pc = "deleted"
    /\ store' = store (+) Rows(proc[p].top)
    /\ proc' = [proc EXCEPT ![p].pc = "returned"]
    /\ UNCHANGED <<call, profile, skills, applications, queue, gen>>

\* A query of the call fails (the database is unreachable, a row of the
\* batch is refused): the exception leaves generate_recommendations, which
\* has no handler and opens no transaction.
StoreError(p) ==
    /\ proc[p].pc \in {"scoring", "deleted"}
    /\ proc' = [proc EXCEPT ![p].pc = "raised", ![p].error = "store"]
    /\ UNCHANGED <<call, profile, skills, applications, store, queue, gen>>

\* ------------------------------------------------------------ the callers

\* a direct call generate_recommendations(user, limit)
DirectCall(p, u) ==
    /\ p = "web"
    /\ proc[p].pc = "idle"
    /\ GenStart(p, "direct", u)
    /\ UNCHANGED <<call, profile, skills, applications, store, queue>>

\* JobRecommendationViewSet.get_queryset: generate when the user has no row
ViewList(p, u) ==
    /\ p = "web"
    /\ proc[p].pc = "idle"
    /\ IF OfUser(store, u) # EmptyBag
       THEN /\ proc' = [proc EXCEPT ![p] =
                    [Idle EXCEPT !.pc = "fetch", !.kind = "view", !.user = u]]
            /\ UNCHANGED gen
       ELSE GenStart(p, "view", u)
    /\ UNCHANGED <<call, profile, skills, applications, store, queue>>

\* the queryset the view returned is evaluated for the response
ViewRespond(p) ==
    /\ proc[p].kind = "view"
    /\ proc[p].pc \in {"fetch", "returned"}
    /\ proc' = [proc EXCEPT ![p].pc = "responded",
                            ![p].response = OfUser(store, proc[p].user)]
    /\ UNCHANGED <<call, profile, skills, applications, store, queue, gen>>

\* the worker takes generate_user_recommendations(user_id) from the queue
TaskRun(p) ==
    /\ p = "worker"
    /\ proc[p].pc = "idle"
    /\ queue # <<>>
    /\ queue' = Tail(queue)
    /\ GenStart(p, "task", Head(queue).user)
    /\ UNCHANGED <<call, profile, skills, applications, store>>

\* the task returns a string, also from its `except Exception` handler
TaskReturn(p) ==
    /\ proc[p].kind = "task"
    /\ proc[p].pc \in {"returned", "raised"}
    /\ proc' = [proc EXCEPT ![p].pc = "task_done",
                            ![p].result = IF proc[p].pc = "returned"
                                          THEN "Generated" ELSE "Error generating"]
    /\ UNCHANGED <<call, profile, skills, applications, store, queue, gen>>

\* the request or task is over and the worker is free again
Finish(p) ==
    /\ \/ proc[p].pc \in {"responded", "task_done"}
       \/ proc[p].kind = "direct" /\ proc[p].pc \in {"returned", "raised"}
       \/ proc[p].kind = "view" /\ proc[p].pc = "raised"
    /\ proc' = [proc EXCEPT ![p] = Idle]
    /\ UNCHANGED <<call, profile, skills, applications, store, queue, gen>>

\* -------------------------------------------------------- the environment

\* FreelancerProfileViewSet.perform_update: save, then enqueue the task
UpdateProfile(u, prefs) ==
    /\ profile[u] # NoProfile
    /\ profile[u] # prefs
    /\ Len(queue) + gen < MaxCalls
    /\ profile' = [profile EXCEPT ![u] = prefs]
    /\ queue' = Append(queue, [user |-> u, saved |-> prefs])
    /\ UNCHANGED <<call, skills, applications, store, proc, gen>>

\* JobViewSet.apply: one application per (job, applicant), status pending
Apply(u, j) ==
    /\ j \notin AppliedJobIds(applications, u)
    /\ applications' = applications \cup
            {[applicant |-> u, job |-> j, status |-> "pending"]}
    /\ UNCHANGED <<call, profile, skills, store, queue, proc, gen>>

\* ApplicationViewSet.update_status: the row is kept, its status is set
UpdateStatus(a, new_status) ==
    /\ a \in applications
    /\ applications' = (applications \ {a}) \cup {[a EXCEPT !.status = new_status]}
    /\ UNCHANGED <<call, profile, skills, store, queue, proc, gen>>

\* the steps that may start a generate_recommendations call
CallStart ==
    \/ \E p \in Procs, u \in Users : DirectCall(p, u)
    \/ \E p \in Procs, u \in Users : ViewList(p, u)
    \/ \E p \in Procs : TaskRun(p)

\* the other steps of the program and of its environment
CallStep ==
    \/ \E p \in Procs : ScoreNext(p)
    \/ \E p \in Procs, limit \in LimitChoices \cup {DefaultLimit} : DeleteStep(p, limit)
    \/ \E p \in Procs : BulkCreate(p)
    \/ \E p \in Procs : StoreError(p)
    \/ \E p \in Procs : ViewRespond(p)
    \/ \E p \in Procs : TaskReturn(p)
    \/ \E p \in Procs : Finish(p)
    \/ \E u \in Users, prefs \in PrefChoices : UpdateProfile(u, prefs)
    \/ \E a \in ApplyChoices : Apply(a[1], a[2])
    \/ \E a \in applications, st \in ApplicationStatusChoices : UpdateStatus(a, st)

Next == CallStart \/ CallStep

Spec == Init /\ [][Next]_vars

\* ----------------------------------------------- a malformed preference

\* preferred_locations = ["lag", 7]: the first entry matches the location of
\* j2, the second is not a string
BadPrefs ==
    [preferred_locations |-> << <<"l", "a", "g">>, NonString >>,
     preferred_project_types |-> <<>>, is_open_to_remote |-> TRUE]

\* as Init, with the malformed list saved in the profile of u1
InitBad ==
    /\ profile = [u \in Users |-> IF u = "u1" THEN BadPrefs ELSE NoProfile]
    /\ skills \in {f \in [Users -> SkillChoices] : f["u2"] = {}}
    /\ applications = {}
    /\ store \in SeedChoices
    /\ queue = <<>>
    /\ proc = [p \in Procs |-> Idle]
    /\ gen = 0
    /\ call = NoCall

SpecBad == InitBad /\ [][Next]_vars

\* ------------------------------------------------- skills that change

\* the skill names of the UserSkill rows created and deleted in a behaviour
UserSkillNames == {"Python"}

\* UserSkillViewSet.create: a UserSkill row is added to a profile
AddUserSkill(u, name) ==
    /\ profile[u] # NoProfile
    /\ name \notin skills[u]
    /\ skills' = [skills EXCEPT ![u] = @ \cup {name}]
    /\ UNCHANGED <<call, profile, applications, store, queue, proc, gen>>

\* UserSkillViewSet.destroy: a UserSkill row is deleted
RemoveUserSkill(u, name) ==
    /\ name \in skills[u]
    /\ skills' = [skills EXCEPT ![u] = @ \ {name}]
    /\ UNCHANGED <<call, profile, applications, store, queue, proc, gen>>

NextSkills ==
    \/ Next
    \/ \E u \in Users, name \in UserSkillNames : AddUserSkill(u, name)
    \/ \E u \in Users, name \in UserSkillNames : RemoveUserSkill(u, name)

SpecSkills == Init /\ [][NextSkills]_vars

\* ------------------------------------------------------ calls in sequence

\* the call of p is between its first query and its return or its exception
InCall(p) == proc[p].pc \in {"scoring", "deleted"}

\* no two calls of generate_recommendations overlap
NonOverlapping == \A p, q \in Procs : (InCall(p) /\ InCall(q)) => p = q

\* the steps of the program when its callers run the engine one call after
\* the other
NextSeq ==
    \/ (\E p \in Procs, u \in Users : DirectCall(p, u)) /\ NonOverlapping'
    \/ (\E p \in Procs, u \in Users : ViewList(p, u)) /\ NonOverlapping'
    \/ (\E p \in Procs : TaskRun(p)) /\ NonOverlapping'
    \/ CallStep

SpecSeq == Init /\ [][NextSeq]_vars

\* ------------------------------------------------ calculate_score alone

\* the skill names a job of these calls may require, and those a profile
\* may declare
RequiredSkillNames == {"Python", "Go", "SQL", "Rust", "Java", "Django", "React"}
DeclaredSkillNames == {"Python", "python", "Go", "SQL"}

JobSkillChoices == { {}, {"Python"}, {"Python", "Go"}, RequiredSkillNames }

\* Job.location: "Remote" and "La"
JobLocationChoices == { <<"R", "e", "m", "o", "t", "e">>, <<"L", "a">> }

\* entries of preferred_locations: "A" and "xLa"
PrefLocationNames == { <<"A">>, <<"x", "L", "a">> }

\* Job.job_type, and the entries of preferred_project_types
TypeNames == {"full_time", "contract"}

\* the lists of at most n elements of S
SeqsUpTo(S, n) == UNION {[1..k -> S] : k \in 0..n}

ScorePrefChoices ==
    [preferred_locations : SeqsUpTo(PrefLocationNames, MaxPrefs),
     preferred_project_types : SeqsUpTo(TypeNames, MaxPrefs),
     is_open_to_remote : BOOLEAN]

ScoreSkillChoices ==
    {U \in SUBSET DeclaredSkillNames : Cardinality(U) < MaxSkills}

ScoreJobChoices ==
    [skills : JobSkillChoices, location : JobLocationChoices,
     is_remote : BOOLEAN, job_type : TypeNames]

\* calculate_score(profile, job) with its three sub-scores
Evaluate(prefs, user_skills, job) ==
    [phase |-> "done", prefs |-> prefs, user_skills |-> user_skills, job |-> job,
     skills_score |-> calculate_skills_score(user_skills, job),
     location_score |-> calculate_location_score(prefs, job),
     type_score |-> calculate_type_score(prefs, job),
     score |-> calculate_score(prefs, user_skills, job)]

\* a profile and a job are given; nothing else exists
InitScore ==
    /\ profile = [u \in Users |-> NoProfile]
    /\ skills = [u \in Users |-> {}]
    /\ applications = {}
    /\ store = EmptyBag
    /\ queue = <<>>
    /\ proc = [p \in Procs |-> Idle]
    /\ gen = 0
    /\ call \in [phase : {"input"}, prefs : ScorePrefChoices,
                  user_skills : ScoreSkillChoices, job : ScoreJobChoices]

\* calculate_score is applied to the profile and the job
Calculate ==
    /\ call.phase = "input"
    /\ call' = Evaluate(call.prefs, call.user_skills, call.job)
    /\ UNCHANGED <<profile, skills, applications, store, queue, proc, gen>>

\* the profile declares one more skill and calculate_score is applied again
AddSkill(name) ==
    /\ call.phase = "done"
    /\ name \notin call.user_skills
    /\ Cardinality(call.user_skills) < MaxSkills
    /\ call' = Evaluate(call.prefs, call.user_skills \cup {name}, call.job)
    /\ UNCHANGED <<profile, skills, applications, store, queue, proc, gen>>

NextScore ==
    \/ Calculate
    \/ \E name \in DeclaredSkillNames : AddSkill(name)

SpecScore == InitScore /\ [][NextScore]_vars

\* ------------------------------------------------------------- the claims

\* the call of p has loaded a profile (it is past line 71)
HasProfile(p) == proc[p].prefs # NoProfile

\* the call of p has returned its batch
Returned(p) ==
    \/ proc[p].pc = "returned"
    \/ proc[p].pc = "task_done" /\ proc[p].result = "Generated"

\* p takes the step that inserts its batch and returns
Inserts(p) == proc[p].pc = "deleted" /\ proc'[p].pc = "returned"

\* C1: when a call for a user with a profile returns, the user's stored
\* content_based rows are exactly the batch it returns.
C1_StoreIsReturnedBatch ==
    [][\A p \in Procs :
          Inserts(p) => ContentBased(store', proc[p].user) = Rows(proc[p].top)]_vars

\* C2: a step of a call for user u changes no row of another algorithm and
\* no row of another user.
C2_OtherRowsUnchanged ==
    [][\A p \in Procs :
          proc'[p] # proc[p] =>
              Others(store', proc'[p].user) = Others(store, proc'[p].user)]_vars

C2_Witness ==
    \E p \in Procs :
        /\ proc[p].pc = "returned"
        /\ proc[p].deleted # EmptyBag
        /\ proc[p].top # <<>>
        /\ \E r \in BagToSet(store) :
               r.user = proc[p].user /\ r.algorithm_type = "hybrid"
        /\ \E r \in BagToSet(store) : r.user # proc[p].user

\* C3: once two calls for the same user, run over the same jobs, profile
\* and skills, have both returned, the user's stored content_based rows are
\* the batch of one of them.
C3_BatchOfOneCall ==
    \A p, q \in Procs :
        ( /\ p # q
          /\ Returned(p) /\ Returned(q)
          /\ HasProfile(p) /\ HasProfile(q)
          /\ proc[p].user = proc[q].user
          /\ proc[p].seen = proc[q].seen )
        => \/ ContentBased(store, proc[p].user) = Rows(proc[p].top)
           \/ ContentBased(store, proc[p].user) = Rows(proc[q].top)

\* C4: a list response for user u built while a call for u is between its
\* delete and its insert shows either the whole old batch or the whole new one.
C4_ReadsSeeWholeBatch ==
    [][\A r, c \in Procs :
          ( /\ proc[r].kind = "view"
            /\ proc[r].pc # "responded" /\ proc'[r].pc = "responded"
            /\ proc[c].pc = "deleted"
            /\ proc[c].user = proc[r].user )
          => LET shown == ContentBased(proc'[r].response, proc[r].user)
             IN  shown = proc[c].deleted \/ shown = Rows(proc[c].top)]_vars

\* C5: a call that fails after its delete does not end with the old batch
\* deleted and the new batch missing.
C5_FailedInsertRollsBack ==
    [][\A p \in Procs :
          (proc[p].pc = "deleted" /\ proc'[p].pc = "raised")
          => \/ proc[p].deleted \sqsubseteq store'
             \/ Rows(proc[p].top) \sqsubseteq store']_vars

\* C6: a call for a user without a profile returns [] in its first step, and
\* no step of it changes the table.
C6_NoProfileNoMutation ==
    [][\A p \in Procs :
          /\ ( /\ proc[p].pc = "idle"
               /\ proc'[p].pc \notin {"idle", "fetch"}
               /\ profile[proc'[p].user] = NoProfile )
             => /\ proc'[p].pc = "returned"
                /\ proc'[p].top = <<>>
                /\ store' = store
          /\ (proc'[p] # proc[p] /\ proc[p].pc # "idle" /\ ~HasProfile(p))
             => store' = store]_vars

C6_Witness ==
    \E p \in Procs :
        /\ proc[p].pc = "returned"
        /\ proc[p].kind = "direct"
        /\ profile[proc[p].user] = NoProfile
        /\ proc[p].top = <<>>
        /\ ContentBased(store, proc[p].user) # EmptyBag

\* C7: with a positive limit a call returns at most limit records and inserts
\* at most limit rows; the view and the task run with the default limit of 10.
C7_AtMostLimit ==
    [][\A p \in Procs :
          /\ proc'[p].limit > 0 => Len(proc'[p].top) <= proc'[p].limit
          /\ proc'[p].kind \in {"view", "task"} => Len(proc'[p].top) <= DefaultLimit
          /\ (Inserts(p) /\ proc[p].limit > 0)
             => BagCardinality(store') <= BagCardinality(store) + proc[p].limit]_vars

C7_Witness ==
    \E p \in Procs :
        /\ proc[p].pc = "returned"
        /\ proc[p].limit = 1
        /\ Len(proc[p].recs) = 2
        /\ Len(proc[p].top) = 1

\* C8: with a limit of zero or less a call returns the empty sequence.
C8_NonPositiveLimitEmpty ==
    \A p \in Procs : proc[p].limit <= 0 => proc[p].top = <<>>

\* C9: a job is kept exactly when its score is above 0.10 (a score of 0.10
\* is dropped, a score of 0.20 kept), so no record of a batch and no stored
\* content_based row has a score of 0.10 or less.
C9_ThresholdStrict ==
    /\ \A p \in Procs :
          /\ \A i \in 1..Len(proc[p].seen) :
                LET e == proc[p].seen[i]
                IN  (e.score > 10) <=>
                        (\E k \in 1..Len(proc[p].recs) :
                            /\ proc[p].recs[k].job = e.job
                            /\ proc[p].recs[k].score = e.score)
          /\ \A r \in Range(proc[p].recs) \cup Range(proc[p].top) : r.score > 10
    /\ \A r \in BagToSet(store) : r.algorithm_type = "content_based" => r.score > 10

C9_Witness ==
    /\ \E p \in Procs : \E i \in 1..Len(proc[p].seen) :
          /\ proc[p].seen[i].score = 10
          /\ \A r \in Range(proc[p].recs) : r.job # proc[p].seen[i].job
    /\ \E r \in BagToSet(store) :
          r.algorithm_type = "content_based" /\ r.score = 20 /\ r.user = "u1"

\* C10: the returned sequence is in non-increasing order of score, and no
\* record that cleared the threshold and was cut off scores more than a
\* returned one.
C10_SortedTopOfRanking ==
    \A p \in Procs :
        LET top == proc[p].top
        IN  /\ \A i \in 1..Len(top) : \A k \in i..Len(top) :
                  top[i].score >= top[k].score
            /\ \A r \in Range(proc[p].recs) \ Range(top) :
                  \A t \in Range(top) : r.score <= t.score

C10_Witness ==
    \E p \in Procs :
        /\ proc[p].pc = "returned"
        /\ Len(proc[p].recs) = 2
        /\ proc[p].recs[1].score < proc[p].recs[2].score
        /\ proc[p].top = <<proc[p].recs[2]>>

\* the (job, score) pairs of a bag of rows
Pairs(b) == {<<r.job, r.score>> : r \in BagToSet(b)}

\* C11: when calls run one after the other, a call persists exactly the batch
\* it returns, and a second call for the same user with the same limit over
\* the same profile, skills, jobs and applications persists a batch with the
\* same (job, score) pairs and the same size as the batch of the first.
C11_RerunIdempotent ==
    [][\A q \in Procs :
          (Inserts(q) /\ HasProfile(q)) =>
              LET u == proc[q].user
                  second == ContentBased(store', u)
              IN  /\ second = Rows(proc[q].top)
                  /\ \A p \in Procs \ {q} :
                        ( /\ Returned(p) /\ HasProfile(p)
                          /\ proc[p].user = u
                          /\ proc[p].prefs = proc[q].prefs
                          /\ proc[p].seen = proc[q].seen
                          /\ proc[p].limit = proc[q].limit )
                        => /\ Pairs(second) = Pairs(Rows(proc[p].top))
                           /\ BagCardinality(second) = Len(proc[p].top)]_vars

C11_Witness ==
    \E p, q \in Procs :
        /\ p # q
        /\ proc[p].pc = "task_done" /\ proc[p].result = "Generated"
        /\ proc[q].pc = "returned" /\ proc[q].kind = "direct"
        /\ proc[p].user = proc[q].user
        /\ proc[p].prefs = proc[q].prefs
        /\ proc[p].seen = proc[q].seen
        /\ proc[p].limit = proc[q].limit
        /\ Len(proc[p].top) = 2
        /\ proc[q].deleted = Rows(proc[p].top)
        /\ ContentBased(store, proc[q].user) = Rows(proc[q].top)

\* the jobs the call of a process has scored
Scored(c) == {e.job : e \in Range(c.seen)}

\* C12: the jobs a call selects are published and have, when it selects
\* them, no application of the user, whatever the application's status; the
\* call scores no other job, and returns records of scored jobs only.
C12_OnlyEligibleJobs ==
    [][\A p \in Procs :
          /\ (proc[p].pc = "idle" /\ proc'[p].pc = "scoring")
             => \A j \in Range(proc'[p].todo) :
                   /\ JobStatus(j) = "published"
                   /\ ~ \E a \in applications :
                          a.applicant = proc'[p].user /\ a.job = j
          /\ (proc[p].pc # "idle" /\ proc'[p].pc # "idle")
             => Scored(proc'[p]) \cup Range(proc'[p].todo)
                    \subseteq Scored(proc[p]) \cup Range(proc[p].todo)
          /\ {r.job : r \in Range(proc'[p].recs) \cup Range(proc'[p].top)}
                 \subseteq Scored(proc'[p])]_vars

C12_Witness ==
    \E p \in Procs :
        /\ proc[p].pc = "returned"
        /\ proc[p].top # <<>>
        /\ \E a \in applications :
               /\ a.applicant = proc[p].user
               /\ a.status = "rejected"
               /\ a.job \notin Scored(proc[p])
        /\ \A j \in Scored(proc[p]) : JobStatus(j) = "published"

\* calculate_score has been applied to the profile and the job of call
Done == call.phase = "done"

\* C13: for every profile and job, also with empty skill sets and empty
\* preference lists, calculate_score returns a whole number of hundredths
\* between 0.00 and 1.00.
C13_ScoreInUnitRange == Done => call.score \in 0..100

C13_Witness ==
    /\ Done
    /\ call.user_skills = {}
    /\ call.job.skills # {}
    /\ call.prefs.preferred_locations = <<>>
    /\ call.prefs.preferred_project_types = <<>>
    /\ call.score = 20

\* C14: calculate_score is 0.6 x skills + 0.2 x location + 0.2 x type, rounded
\* to the nearest hundredth, and the three weights sum to 1.0.
C14_WeightedSumRounded ==
    /\ WeightSkills = 60 /\ WeightLocation = 20 /\ WeightType = 20
    /\ WeightSkills + WeightLocation + WeightType = 100
    /\ Done =>
          LET sk == call.skills_score
              lo == call.location_score
              ty == call.type_score
              d == sk.den * lo.den * ty.den
              n == 60 * sk.num * lo.den * ty.den
                   + 20 * lo.num * sk.den * ty.den
                   + 20 * ty.num * sk.den * lo.den
              diff == call.score * d - n
          IN  /\ 2 * diff <= d
              /\ 2 * (0 - diff) <= d

\* the weighted sum of the witness is 8.57.. + 10 + 10 hundredths
C14_Witness ==
    /\ Done
    /\ call.skills_score = Frac(1, 7)
    /\ call.location_score = Frac(1, 2)
    /\ call.type_score = Frac(1, 2)
    /\ call.score = 29

\* C15: with R the required and U the declared skill names, the skills
\* sub-score is 1.0 when R is empty, 0.0 when R is not empty and U is, and
\* |R \cap U| / |R| otherwise.
C15_SkillsScoreFormula ==
    Done =>
        LET R == call.job.skills
            U == call.user_skills
            sk == call.skills_score
        IN  /\ sk.den > 0
            /\ R = {} => sk.num = sk.den
            /\ (R # {} /\ U = {}) => sk.num = 0
            /\ (R # {} /\ U # {})
               => sk.num * Cardinality(R) = Cardinality(R \cap U) * sk.den

C15_Witness ==
    /\ Done
    /\ Cardinality(call.job.skills) = 2
    /\ Cardinality(call.user_skills) = 2
    /\ call.skills_score = Frac(1, 2)

\* C16: when a skill is added to the declared skills, profile preferences
\* and job unchanged, neither the skills sub-score nor the score decreases.
C16_SkillsScoreMonotonic ==
    [][( /\ Done /\ call'.phase = "done"
         /\ call.user_skills \subseteq call'.user_skills
         /\ call'.prefs = call.prefs
         /\ call'.job = call.job )
       => /\ call'.skills_score.num * call.skills_score.den
                >= call.skills_score.num * call'.skills_score.den
          /\ call'.score >= call.score]_vars

\* a third skill was added, and one of the declared skills is not required
C16_Witness ==
    /\ Done
    /\ Cardinality(call.user_skills) = MaxSkills
    /\ call.job.skills # {}
    /\ call.user_skills \ call.job.skills # {}
    /\ call.skills_score.num > 0

\* a skill name with its letters in lower case
LowerName(name) ==
    CASE name = "Python" -> "python"
      [] name = "Go" -> "go"
      [] name = "SQL" -> "sql"
      [] name = "Rust" -> "rust"
      [] name = "Java" -> "java"
      [] name = "Django" -> "django"
      [] name = "React" -> "react"
      [] OTHER -> name

\* C17: skill names match when they are equal after normalizing case: the
\* skills sub-score counts a required skill as matched when a declared skill
\* differs from it only in letter case.
C17_SkillsMatchIgnoringCase ==
    (Done /\ call.job.skills # {} /\ call.user_skills # {}) =>
        LET R == call.job.skills
            U == call.user_skills
            matched == {r \in R : \E u \in U : LowerName(u) = LowerName(r)}
        IN  call.skills_score.num * Cardinality(R)
                = Cardinality(matched) * call.skills_score.den

\* C18: the location sub-score is 0.5 for an empty preferred_locations list,
\* whatever the remote flags; else 1.0 when a preferred location and the job
\* location contain one another, letter case ignored, whatever the remote
\* flags; else 1.0 when the job is remote and the profile is open to remote
\* work; else 0.0.
C18_LocationScoreFormula ==
    Done =>
        LET locs == call.prefs.preferred_locations
            job_loc == Lower(call.job.location)
            contained == \E i \in 1..Len(locs) :
                            \/ IsSubstring(Lower(locs[i]), job_loc)
                            \/ IsSubstring(job_loc, Lower(locs[i]))
            remote == call.job.is_remote /\ call.prefs.is_open_to_remote
            lo == call.location_score
        IN  /\ locs = <<>> => lo = Frac(1, 2)
            /\ (locs # <<>> /\ contained) => lo = Frac(1, 1)
            /\ (locs # <<>> /\ ~contained /\ remote) => lo = Frac(1, 1)
            /\ (locs # <<>> /\ ~contained /\ ~remote) => lo = Frac(0, 1)

\* the second entry "A" is found in "La"; the remote test would have failed
C18_Witness ==
    /\ Done
    /\ call.prefs.preferred_locations = << <<"x", "L", "a">>, <<"A">> >>
    /\ call.job.location = <<"L", "a">>
    /\ call.job.is_remote /\ ~call.prefs.is_open_to_remote
    /\ call.location_score = Frac(1, 1)

\* C19: the job-type sub-score is 0.5 for an empty preferred_project_types
\* list, 1.0 when the job's job_type is an entry of the list, 0.0 otherwise.
C19_TypeScoreFormula ==
    Done =>
        LET types == call.prefs.preferred_project_types
            ty == call.type_score
        IN  /\ types = <<>> => ty = Frac(1, 2)
            /\ (types # <<>> /\ call.job.job_type \in Range(types)) => ty = Frac(1, 1)
            /\ (types # <<>> /\ call.job.job_type \notin Range(types)) => ty = Frac(0, 1)

C19_Witness ==
    /\ Done
    /\ call.prefs.preferred_project_types = <<"contract", "full_time">>
    /\ call.job.job_type = "full_time"
    /\ call.type_score = Frac(1, 1)

\* the scenario of C20: skills {Python}, no preferred location, no preferred
\* type, open to remote work; the job requires {Python}, is at "Remote", is
\* remote and full_time
C20_Scenario ==
    /\ Done
    /\ call.user_skills = {"Python"}
    /\ call.prefs = [preferred_locations |-> <<>>, preferred_project_types |-> <<>>,
                     is_open_to_remote |-> TRUE]
    /\ call.job = [skills |-> {"Python"}, location |-> <<"R", "e", "m", "o", "t", "e">>,
                   is_remote |-> TRUE, job_type |-> "full_time"]

\* C20 as stated: in the scenario the sub-scores are skills 1.0, location 1.0
\* and type 0.5, and calculate_score returns 0.90.
C20_ScenarioAsStated ==
    C20_Scenario =>
        /\ call.skills_score = Frac(1, 1)
        /\ call.location_score = Frac(1, 1)
        /\ call.type_score = Frac(1, 2)
        /\ call.score = 90

\* C20, amended: in the scenario the sub-scores are skills 1.0, location 0.5
\* (the list of preferred locations is empty) and type 0.5, and
\* calculate_score returns 0.80.
C20_ScenarioScore ==
    C20_Scenario =>
        /\ call.skills_score = Frac(1, 1)
        /\ call.location_score = Frac(1, 2)
        /\ call.type_score = Frac(1, 2)
        /\ call.score = 80

C20_Witness == C20_Scenario /\ call.score = 80

\* C21: a generation that failed inside the background task does not let the
\* task finish with a normal result.
C21_TaskFailureSurfaced ==
    [][\A p \in Procs :
          (proc[p].kind = "task" /\ proc[p].pc = "raised")
          => proc'[p].pc # "task_done"]_vars

\* the next job of the call of p cannot be scored
HeadRaises(p) ==
    /\ proc[p].pc = "scoring"
    /\ proc[p].todo # <<>>
    /\ LocationScoreRaises(proc[p].prefs, JobRow(Head(proc[p].todo)))

\* C22: when the scoring of one job fails, the call goes on with the
\* remaining jobs (unless the store fails).
C22_BadRecordSkipped ==
    [][\A p \in Procs :
          (HeadRaises(p) /\ proc'[p] # proc[p] /\ proc'[p].error # "store")
          => /\ proc'[p].pc = "scoring"
             /\ proc'[p].todo = Tail(proc[p].todo)]_vars

\* the list request of p answers now
Responds(p) ==
    proc[p].kind = "view" /\ proc[p].pc # "responded" /\ proc'[p].pc = "responded"

\* the trigger of the list view: generation exactly when the user holds no
\* row, before the response; no write when the user holds a row; the response
\* lists the user's rows
C23_TriggerOnDemand ==
    [][\A p \in Procs :
          /\ (proc[p].pc = "idle" /\ proc'[p].kind = "view")
             => IF \E r \in BagToSet(store) : r.user = proc'[p].user
                THEN proc'[p].pc = "fetch" /\ gen' = gen /\ store' = store
                ELSE proc'[p].pc \in {"scoring", "returned"} /\ gen' = gen + 1
          /\ (proc[p].kind = "view" /\ proc[p].pc = "fetch" /\ proc'[p] # proc[p])
             => store' = store
          /\ Responds(p)
             => /\ proc[p].pc \in {"fetch", "returned"}
                /\ proc'[p].response =
                       Restrict(store, {r \in BagToSet(store) : r.user = proc[p].user})]_vars

\* the list request of p has generated for a user whose only skill is the
\* only required skill of j1, the only eligible job
OneJobScenario(p) ==
    /\ proc[p].kind = "view"
    /\ proc[p].pc = "returned"
    /\ Len(proc[p].seen) = 1
    /\ proc[p].seen[1].job = "j1"
    /\ Cardinality(JobSkills("j1")) = 1
    /\ skills[proc[p].user] = JobSkills("j1")

\* C23: a list request of a user without rows generates before it answers
\* and lists the user's rows, a list request of a user with rows generates
\* nothing and writes nothing; a freelancer whose only skill is the only
\* required skill of the only eligible job is shown exactly one
\* recommendation, for that job.
C23_ListGeneratesOnDemand ==
    [][\A p \in Procs :
          (Responds(p) /\ OneJobScenario(p))
          => /\ BagCardinality(proc'[p].response) = 1
             /\ \A r \in BagToSet(proc'[p].response) : r.job = "j1"]_vars
    /\ C23_TriggerOnDemand

\* the task of p starts now
TaskStarts(p) == proc[p].pc = "idle" /\ proc'[p].kind = "task"

\* every change of a profile sends one task for its user
C24_UpdateEnqueues ==
    [][\A u \in Users :
          profile'[u] # profile[u]
          => queue' = Append(queue, [user |-> u, saved |-> profile'[u]])]_vars

\* a task computes from the profile saved by the update that sent it
C24_TaskReadsSavedProfile ==
    [][\A p \in Procs :
          (TaskStarts(p) /\ proc'[p].pc = "scoring")
          => proc'[p].prefs = Head(queue).saved]_vars

\* when a task returns, the stored batch of its user is the one it computed,
\* cut at the default limit
C24_TaskReplacesBatch ==
    [][\A p \in Procs :
          (Inserts(p) /\ proc[p].kind = "task")
          => /\ proc[p].limit = DefaultLimit
             /\ ContentBased(store', proc[p].user)
                    = Rows(Slice(SortDesc(proc[p].recs), DefaultLimit))]_vars

\* C24: every profile update enqueues one task for the updating user, and
\* when that task has run without failure the user's stored content_based
\* batch is the one computed, with limit 10, from the profile that update
\* saved, in place of the old batch.
C24_UpdateRegenerates ==
    /\ C24_UpdateEnqueues
    /\ C24_TaskReadsSavedProfile
    /\ C24_TaskReplacesBatch

\* a row with an interaction flag set
Flagged(r) == r.is_viewed \/ r.is_clicked \/ r.is_applied

\* the rows of a bag that have a flag set
FlaggedRows(b) == Restrict(b, {r \in BagToSet(b) : Flagged(r)})

\* C25: no step of a generation sets or clears a flag of a stored row: the
\* rows a step adds have the three flags false, and every row with a flag
\* that is stored after the step was stored, as it is, before it.
C25_FlagsNotMutated ==
    [][/\ \A r \in BagToSet(store') :
             CopiesIn(r, store') > CopiesIn(r, store)
             => ~r.is_viewed /\ ~r.is_clicked /\ ~r.is_applied
       /\ FlaggedRows(store') \sqsubseteq FlaggedRows(store)
       /\ \A p \in Procs : \A r \in Range(proc'[p].recs) \cup Range(proc'[p].top) :
             ~r.is_viewed /\ ~r.is_clicked /\ ~r.is_applied]_vars

C25_Witness ==
    \E p \in Procs :
        /\ proc[p].pc = "returned"
        /\ proc[p].top # <<>>
        /\ \E r \in BagToSet(proc[p].deleted) : Flagged(r)
        /\ \E r \in BagToSet(store) :
               r.user = proc[p].user /\ r.algorithm_type = "hybrid" /\ r.is_applied
        /\ \A r \in BagToSet(ContentBased(store, proc[p].user)) : ~Flagged(r)

\* C26: the scores of one pass are computed against one snapshot of the
\* user's skills and preferences: some set of skills, with the preferences
\* the call loaded, gives every score the pass has computed.
C26_OneSnapshotPerPass ==
    \A p \in Procs :
        HasProfile(p) =>
            \E snapshot \in SUBSET (UserSkillNames \cup UNION SkillChoices) :
                \A i \in 1..Len(proc[p].seen) :
                    proc[p].seen[i].score
                        = calculate_score(proc[p].prefs, snapshot,
                                          JobRow(proc[p].seen[i].job))

\* the place of x in a sequence without repetition
PlaceIn(seq, x) == CHOOSE i \in 1..Len(seq) : seq[i] = x

\* C27: records of equal score are returned in the order their jobs had in
\* the sequence of eligible jobs, and of records of equal score the earlier
\* ones are kept by the cut.
C27_StableRanking ==
    \A p \in Procs :
        LET recs == proc[p].recs
            top == proc[p].top
        IN  /\ \A i, k \in 1..Len(recs) :
                  i < k => PlaceIn(JobOrder, recs[i].job) < PlaceIn(JobOrder, recs[k].job)
            /\ \A i, k \in 1..Len(top) :
                  (i < k /\ top[i].score = top[k].score)
                  => PlaceIn(recs, top[i]) < PlaceIn(recs, top[k])
            /\ \A t \in Range(top) : \A r \in Range(recs) \ Range(top) :
                  r.score = t.score => PlaceIn(recs, t) < PlaceIn(recs, r)

C27_Witness ==
    \E p \in Procs :
        /\ proc[p].pc = "returned"
        /\ Len(proc[p].recs) = 2
        /\ proc[p].recs[1].score = proc[p].recs[2].score
        /\ proc[p].limit = 1
        /\ proc[p].top = <<proc[p].recs[1]>>
        /\ proc[p].recs[1].job = "j1"

\* C28: a call whose scoring raises has issued no write: no step of a call
\* that is still scoring, and not the step that raises, changes the table,
\* and the failed call has deleted nothing and has no batch.
C28_ScoringFailureWritesNothing ==
    [][\A p \in Procs :
          /\ ( /\ proc'[p] # proc[p]
               /\ proc[p].pc \in {"idle", "scoring"}
               /\ proc'[p].pc \in {"scoring", "raised"} )
             => store' = store
          /\ proc'[p].error = "scoring"
             => /\ proc'[p].deleted = EmptyBag
                /\ proc'[p].top = <<>>
                /\ proc'[p].todo # <<>>]_vars

\* the scoring of a job has failed; the rows of the
\* user, of both tags, are still stored
C28_Witness ==
    \E p \in Procs :
        /\ proc[p].pc = "raised"
        /\ proc[p].error = "scoring"
        /\ ContentBased(store, proc[p].user) # EmptyBag
        /\ \E r \in BagToSet(store) :
               r.user = proc[p].user /\ r.algorithm_type = "hybrid"

\* C29: when a call for u has inserted its batch, no content_based row of u
\* has an interaction flag set, also not the row of a job whose old row had
\* one.
C29_RegenerationDropsFlags ==
    [][\A p \in Procs :
          Inserts(p) =>
              \A r \in BagToSet(ContentBased(store', proc[p].user)) :
                  ~r.is_viewed /\ ~r.is_clicked /\ ~r.is_applied]_vars

\* the old row of j1 was viewed and clicked; j1 is recommended again
C29_Witness ==
    \E p \in Procs :
        /\ proc[p].pc = "returned"
        /\ \E r \in BagToSet(proc[p].deleted) :
               r.job = "j1" /\ r.is_viewed /\ r.is_clicked
        /\ \E r \in BagToSet(ContentBased(store, proc[p].user)) :
               r.job = "j1" /\ ~Flagged(r)

\* C30: when calls run one after the other, the stored content_based rows of
\* a user hold at most one row per job.
C30_OneRowPerJob ==
    \A u \in Users, j \in Jobs :
        BagCardinality(Restrict(store, {r \in BagToSet(store) :
            r.user = u /\ r.job = j /\ r.algorithm_type = "content_based"})) <= 1

\* two calls for the same user have returned, one after the other, each with
\* a batch of two jobs, and the table holds two rows
C30_Witness ==
    \E p, q \in Procs :
        /\ p # q
        /\ Returned(p) /\ Returned(q)
        /\ proc[p].user = proc[q].user
        /\ Len(proc[p].top) = 2 /\ Len(proc[q].top) = 2
        /\ BagCardinality(ContentBased(store, proc[p].user)) = 2

====
